---- MODULE Spec2Model ----
(***************************************************************************)
(* The bundle store of StaticLink (hooks/useBundles over the Dexie table   *)
(* db.bundles): every operation of the hook as one action on the           *)
(* persisted collection, and the hook's transactional read-modify-write    *)
(* as a small process model for calls that are in flight together; the     *)
(* package codec (services/bundleService) with the file import of the      *)
(* home screen and its conflict dialog; the derived lists of the home      *)
(* screen and of the editor; a checklist card of the editor; and the       *)
(* quick-add effect of the home screen.                                    *)
(*                                                                         *)
(* Representation.  A bundle id (crypto.randomUUID) is a key of            *)
(* 1..MaxBundles; the order of the integers is the order of the keys in    *)
(* the primary index.  An ISO timestamp is a tick of the clock.  The       *)
(* optional flags isPinned / isArchived / isDeleted are read by the code   *)
(* only for truthiness or "=== true", so an absent flag and false are one  *)
(* value, FALSE.  An absent deletedAt, and an absent item id, is           *)
(* Undefined.  isLocked / passwordHash and the payload of the item         *)
(* variants are carried by no operation of the store other than by         *)
(* copying the record whole, and are left out of the store's items; the    *)
(* items of an exported bundle carry type, filename, mimeType, content and *)
(* checksum, which the codec reads; a checklist item carries its entries   *)
(* (items), each an id and a checked flag.  ui is the state the screens    *)
(* keep outside the store.                                                 *)
(***************************************************************************)
EXTENDS Integers, Sequences, FiniteSets, TLC

VARIABLES store, now, usedIds, nextItemId, lastOp, saved, steps, calls, txOwner, base, pkg, ui

vars == <<store, now, usedIds, nextItemId, lastOp, saved, steps, calls, txOwner, base, pkg, ui>>

\* ------------------------------------------------------------------ bounds
MaxBundles == 3
MaxOps == 2

\* The runs of the quick-add effect that are started for one request.
MaxRuns == 2

\* ------------------------------------------------------------------ values
Undefined == -1

BundleIds == 1..MaxBundles

\* An id string that was never the id of a record.
NoSuchId == 0
CopyMarker == " (Copy)"

Max(a, b) == IF a > b THEN a ELSE b
Min(a, b) == IF a < b THEN a ELSE b

\* { ...b, ...u }: the fields of u override those of b.
Spread(b, u) == [f \in DOMAIN b \cup DOMAIN u |-> IF f \in DOMAIN u THEN u[f] ELSE b[f]]

\* The fields a Bundle has when the object that was stored names none of the
\* optional ones.
BundleDefaults ==
  [id |-> Undefined, title |-> "", createdAt |-> Undefined, updatedAt |-> Undefined,
   items |-> <<>>, isPinned |-> FALSE, isArchived |-> FALSE, isDeleted |-> FALSE,
   deletedAt |-> Undefined]

Item(id, title) == [id |-> id, title |-> title, isPinned |-> FALSE]

\* What Array.prototype.splice leaves in the array when it is handed the
\* value undefined as the element to insert.
UndefinedItem == [id |-> Undefined, title |-> "undefined", isPinned |-> FALSE]

\* new Date() read at or after the instant n: the clock has ticked since, or
\* it has not.
Clock(n) == {n, n + 1}

\* ------------------------------------------------------------------ table
\* db.bundles.get(id) returns a record exactly for the keys of the table.
Has(s, id) == id \in DOMAIN s

\* db.bundles.put(rec) / add(rec) with a key that is not in the table.
Put(s, rec) == [k \in DOMAIN s \cup {rec.id} |-> IF k = rec.id THEN rec ELSE s[k]]

\* db.bundles.bulkPut(recs), recs a function from their keys.
BulkPut(s, recs) == [k \in DOMAIN s \cup DOMAIN recs |-> IF k \in DOMAIN recs THEN recs[k] ELSE s[k]]

\* db.bundles.delete(id).
Delete(s, id) == [k \in DOMAIN s \ {id} |-> s[k]]

RECURSIVE KeysAsc(_)
KeysAsc(S) ==
  IF S = {} THEN <<>>
  ELSE LET m == CHOOSE m \in S : \A k \in S : m <= k
       IN <<m>> \o KeysAsc(S \ {m})

Range(q) == {q[i] : i \in DOMAIN q}

\* db.bundles.where('id').anyOf(ids).toArray(): the records whose key is one
\* of ids, each once, in the order of the index.
AnyOfKeys(s, ids) == KeysAsc(Range(ids) \cap DOMAIN s)


\* ------------------------------------------------------------------ records
NullItem == [id |-> Undefined, title |-> "null", isPinned |-> FALSE]

\* JSON.parse(JSON.stringify(items)): plain data comes back equal; an
\* element that is undefined comes back as null.
DeepCopyItems(items) ==
  [i \in DOMAIN items |-> IF items[i] = UndefinedItem THEN NullItem ELSE items[i]]

\* The object literal of addBundle.
NewBundle(id, title, tc, tu) ==
  [BundleDefaults EXCEPT !.id = id, !.title = title, !.createdAt = tc, !.updatedAt = tu]

ImportedBundleSpreadLast(bundleData, id, tc, tu) ==
  Spread(Spread(BundleDefaults, [id |-> id, createdAt |-> tc, updatedAt |-> tu]), bundleData)

\* The object literal of importBundle: bundleData spread first, then the
\* three fields the store assigns.
ImportedBundle(bundleData, id, tc, tu) ==
  Spread(Spread(BundleDefaults, bundleData), [id |-> id, createdAt |-> tc, updatedAt |-> tu])

DuplicatedBundleKeepingDeleted(original, id, tc, tu) ==
  [original EXCEPT !.items = DeepCopyItems(original.items), !.id = id,
                   !.title = original.title \o CopyMarker,
                   !.createdAt = tc, !.updatedAt = tu]

\* The object literal of duplicateBundle.
DuplicatedBundle(original, id, tc, tu) ==
  [original EXCEPT !.items = DeepCopyItems(original.items), !.id = id,
                   !.title = original.title \o CopyMarker,
                   !.createdAt = tc, !.updatedAt = tu,
                   !.isDeleted = FALSE, !.deletedAt = Undefined]

\* The object literal of updateBundle.
UpdatedBundle(bundle, updates, t) ==
  Spread(Spread(bundle, updates), [updatedAt |-> t])

\* The object literal of deleteBundle, and the loop body of deleteBundles.
SoftDeleted(bundle, t) ==
  [bundle EXCEPT !.isDeleted = TRUE, !.deletedAt = t, !.isPinned = FALSE]

ArchivedKeepingPin(bundle) == [bundle EXCEPT !.isArchived = TRUE]

\* The loop body of archiveBundles.
Archived(bundle) == [bundle EXCEPT !.isArchived = TRUE, !.isPinned = FALSE]

RestoredKeepingStamp(bundle) == [bundle EXCEPT !.isDeleted = FALSE]

\* The object literal of restoreBundle.
Restored(bundle) == [bundle EXCEPT !.isDeleted = FALSE, !.deletedAt = Undefined]

RECURSIVE FlatMapItems(_, _)
\* bundlesToMerge.flatMap(b => b.items), bundlesToMerge given by its keys.
FlatMapItems(s, keys) ==
  IF keys = <<>> THEN <<>>
  ELSE s[Head(keys)].items \o FlatMapItems(s, Tail(keys))

MergedItemsOfFirst(s, bundleIds) ==
  LET keys == AnyOfKeys(s, bundleIds)
  IN IF keys = <<>> THEN <<>> ELSE DeepCopyItems(s[Head(keys)].items)

\* The items of the bundle mergeBundles builds.
MergedItems(s, bundleIds) == DeepCopyItems(FlatMapItems(s, AnyOfKeys(s, bundleIds)))

\* The object literal of mergeBundles.
MergedBundle(s, bundleIds, newTitle, id, tc, tu) ==
  [NewBundle(id, newTitle, tc, tu) EXCEPT !.items = MergedItems(s, bundleIds)]

\* ------------------------------------------------------------------ items
\* Reading .id of an element that is undefined or null is a TypeError.
IsHole(item) == item \in {UndefinedItem, NullItem}

\* items.findIndex(i => i.id === itemId), counted from 1; 0 when there is
\* none (the code's -1).
FindIndex(items, itemId) ==
  IF \E i \in DOMAIN items : items[i].id = itemId
  THEN CHOOSE i \in DOMAIN items :
         items[i].id = itemId /\ \A j \in 1..(i - 1) : items[j].id # itemId
  ELSE 0

\* findIndex throws when it meets a hole before it meets the item.
FindIndexThrows(items, itemId) ==
  LET n == FindIndex(items, itemId)
      last == IF n = 0 THEN Len(items) ELSE n
  IN \E j \in 1..last : IsHole(items[j])

\* filter(item => ... item.id ...) reads the id of every element.
FilterThrows(items) == \E j \in DOMAIN items : IsHole(items[j])

\* items.filter(item => !itemIds.has(item.id)).
FilterOut(items, itemIds) == SelectSeq(items, LAMBDA it : it.id \notin itemIds)

\* The start index Array.prototype.splice works from, counted from 0.
SpliceStart(len, start) == IF start < 0 THEN Max(len + start, 0) ELSE Min(start, len)

\* items.splice(start, 1): the array that is left.
SpliceRemove(items, start) ==
  LET k == SpliceStart(Len(items), start)
  IN IF k < Len(items)
     THEN SubSeq(items, 1, k) \o SubSeq(items, k + 2, Len(items))
     ELSE items

\* const [movedItem] = items.splice(start, 1).
SpliceRemoved(items, start) ==
  LET k == SpliceStart(Len(items), start)
  IN IF k < Len(items) THEN items[k + 1] ELSE UndefinedItem

\* items.splice(start, 0, item).
SpliceInsert(items, start, item) ==
  LET k == SpliceStart(Len(items), start)
  IN SubSeq(items, 1, k) \o <<item>> \o SubSeq(items, k + 1, Len(items))

\* The body of addItemToBundle / addItemsToBundle on the record it read.
WithItemsAdded(bundle, items, t) ==
  [bundle EXCEPT !.items = bundle.items \o items, !.updatedAt = t]

\* The body of updateItemInBundle once the item is found.
WithItemUpdated(bundle, itemId, itemUpdates, t) ==
  LET n == FindIndex(bundle.items, itemId)
  IN [bundle EXCEPT !.items[n] = Spread(bundle.items[n], itemUpdates), !.updatedAt = t]

DuplicatedItemKeepingPin(originalItem, id) ==
  [originalItem EXCEPT !.id = id, !.title = originalItem.title \o CopyMarker]

\* The object literal of duplicateItemInBundle.
DuplicatedItem(originalItem, id) ==
  [originalItem EXCEPT !.id = id, !.title = originalItem.title \o CopyMarker,
                       !.isPinned = FALSE]

\* The body of duplicateItemInBundle once the item is found.
WithItemDuplicated(bundle, itemId, id, t) ==
  LET n == FindIndex(bundle.items, itemId)
  IN [bundle EXCEPT !.items = SpliceInsert(bundle.items, n, DuplicatedItem(bundle.items[n], id)),
                    !.updatedAt = t]

\* The body of removeItemFromBundle / removeItemsFromBundle.
WithItemsRemoved(bundle, itemIds, t) ==
  [bundle EXCEPT !.items = FilterOut(bundle.items, itemIds), !.updatedAt = t]

WithItemsSwapped(bundle, fromIndex, toIndex, t) ==
  [bundle EXCEPT !.items = [i \in DOMAIN bundle.items |->
                              IF i = SpliceStart(Len(bundle.items), fromIndex) + 1
                              THEN bundle.items[Min(SpliceStart(Len(bundle.items), toIndex) + 1, Len(bundle.items))]
                              ELSE IF i = Min(SpliceStart(Len(bundle.items), toIndex) + 1, Len(bundle.items))
                              THEN bundle.items[Min(SpliceStart(Len(bundle.items), fromIndex) + 1, Len(bundle.items))]
                              ELSE bundle.items[i]],
                 !.updatedAt = t]

\* The body of moveItemInBundle.
WithItemMoved(bundle, fromIndex, toIndex, t) ==
  [bundle EXCEPT !.items = SpliceInsert(SpliceRemove(bundle.items, fromIndex), toIndex,
                                        SpliceRemoved(bundle.items, fromIndex)),
                 !.updatedAt = t]

\* ------------------------------------------------------------------ inputs
\* The partial updates updateBundle is called with: the title edit, the pin
\* and archive toggles, and, as Partial<Bundle> allows, an id.
UpdateSet ==
  {[title |-> "B"]} \cup {[isPinned |-> b] : b \in BOOLEAN}
    \cup {[isArchived |-> b] : b \in BOOLEAN} \cup {[id |-> k] : k \in BundleIds}

ItemUpdateSet == {[isPinned |-> TRUE], [title |-> "y"]}

\* The payload the share screen encodes for bundle: title and items, the
\* items without id (and createdAt).
QrPayload(bundle) ==
  [title |-> bundle.title,
   items |-> [i \in DOMAIN bundle.items |-> [bundle.items[i] EXCEPT !.id = Undefined]]]

\* What importBundle is handed: a payload of the share screen, or the bundle
\* object of any scanned JSON that says staticlink_qr: one with the flag of
\* a deleted bundle, one that carries the id of a record of the table and
\* timestamps of its own, and one with an empty title.
ImportSet(s) ==
  {QrPayload(s[k]) : k \in DOMAIN s}
    \cup {[title |-> "A", items |-> <<>>, isDeleted |-> TRUE]}
    \cup {[title |-> "C", items |-> <<>>, id |-> k, createdAt |-> 9, updatedAt |-> 9] :
            k \in DOMAIN s}
    \cup {[title |-> "", items |-> <<>>]}

\* The bundle ids the operations are called with: the id of a record, of a
\* record that is gone, or of none that ever was.
TargetIds == usedIds \cup {NoSuchId}

\* The id lists mergeBundles is called with: one or two ids, no id twice.
MergeSet ==
  {<<a>> : a \in TargetIds} \cup {q \in TargetIds \X TargetIds : q[1] # q[2]}

\* The items of the bundle an item operation names; none when there is no
\* such bundle.
ItemsOf(s, bundleId) == IF Has(s, bundleId) THEN s[bundleId].items ELSE <<>>

\* The item ids an item operation is called with: the id of an item of the
\* bundle, or an id no item has (stale).
ItemIdSet(s, bundleId, stale) ==
  ({ItemsOf(s, bundleId)[i].id : i \in DOMAIN ItemsOf(s, bundleId)} \ {Undefined}) \cup {stale}

\* The id sets removeItemsFromBundle is called with.
RemoveSet(s, bundleId, stale) ==
  {S \in SUBSET ItemIdSet(s, bundleId, stale) : Cardinality(S) \in {0, 2} \/ S = {stale}}

\* The indexes moveItemInBundle is called with: those of the list, and one
\* before and one past it.
MoveIndexes(s, bundleId) == (0 - 1)..Len(ItemsOf(s, bundleId))

NewTitles == {"A"}

NoOp == [name |-> "none", id |-> 0, ids |-> <<>>, new |-> 0, threw |-> FALSE]

\* No screen of the app holds state of its own.
NoUi == [screen |-> "none"]

\* No bundle exported and no file chosen for import yet.
NoFile == [bundle |-> <<>>, file |-> <<>>, outcome |-> "none", data |-> <<>>, existing |-> 0]

\* ------------------------------------------------------------------ actions
\* What every call leaves behind besides the table: the clock it read last
\* and the record of the call.
Called(name, id, ids, new, threw, t) ==
  /\ steps' = steps + 1
  /\ now' = t
  /\ lastOp' = [name |-> name, id |-> id, ids |-> ids, new |-> new, threw |-> threw]
  /\ UNCHANGED <<calls, txOwner, base, pkg, ui>>

addBundle(title, id, tc, tu) ==
  /\ steps < MaxOps
  /\ id \in BundleIds \ usedIds
  /\ store' = Put(store, NewBundle(id, title, tc, tu))
  /\ usedIds' = usedIds \cup {id}
  /\ Called("addBundle", 0, <<>>, id, FALSE, tu)
  /\ saved' = <<>>
  /\ UNCHANGED nextItemId

importBundle(bundleData, id, tc, tu) ==
  /\ steps < MaxOps
  /\ id \in BundleIds \ usedIds
  /\ store' = Put(store, ImportedBundle(bundleData, id, tc, tu))
  /\ usedIds' = usedIds \cup {id}
  /\ Called("importBundle", 0, <<>>, id, FALSE, tu)
  /\ saved' = <<>>
  /\ UNCHANGED nextItemId

duplicateBundle(bundleId, id, tc, tu) ==
  /\ steps < MaxOps
  /\ IF Has(store, bundleId)
     THEN /\ id \in BundleIds \ usedIds
          /\ store' = Put(store, DuplicatedBundle(store[bundleId], id, tc, tu))
          /\ usedIds' = usedIds \cup {id}
          /\ Called("duplicateBundle", bundleId, <<>>, id, FALSE, tu)
     ELSE /\ UNCHANGED <<store, usedIds>>
          /\ Called("duplicateBundle", bundleId, <<>>, 0, FALSE, now)
  /\ saved' = <<>>
  /\ UNCHANGED nextItemId

updateBundle(id, updates, t) ==
  /\ steps < MaxOps
  /\ IF Has(store, id)
     THEN /\ store' = Put(store, UpdatedBundle(store[id], updates, t))
          /\ usedIds' = usedIds \cup {UpdatedBundle(store[id], updates, t).id}
          /\ Called("updateBundle", id, <<>>, 0, FALSE, t)
     ELSE /\ UNCHANGED <<store, usedIds>>
          /\ Called("updateBundle", id, <<>>, 0, FALSE, now)
  /\ saved' = <<>>
  /\ UNCHANGED nextItemId

deleteBundle(id, t) ==
  /\ steps < MaxOps
  /\ IF Has(store, id)
     THEN /\ store' = Put(store, SoftDeleted(store[id], t))
          /\ saved' = <<store[id]>>
          /\ Called("deleteBundle", id, <<>>, 0, FALSE, t)
     ELSE /\ UNCHANGED store
          /\ saved' = <<>>
          /\ Called("deleteBundle", id, <<>>, 0, FALSE, now)
  /\ UNCHANGED <<usedIds, nextItemId>>

deleteBundles(ids, t) ==
  /\ steps < MaxOps
  /\ store' = BulkPut(store, [k \in ids \cap DOMAIN store |-> SoftDeleted(store[k], t)])
  /\ Called("deleteBundles", 0, <<>>, 0, FALSE, IF ids \cap DOMAIN store = {} THEN now ELSE t)
  /\ saved' = <<>>
  /\ UNCHANGED <<usedIds, nextItemId>>

archiveBundles(ids) ==
  /\ steps < MaxOps
  /\ store' = BulkPut(store, [k \in ids \cap DOMAIN store |-> Archived(store[k])])
  /\ Called("archiveBundles", 0, <<>>, 0, FALSE, now)
  /\ saved' = <<>>
  /\ UNCHANGED <<usedIds, nextItemId>>

restoreBundle(id) ==
  /\ steps < MaxOps
  /\ store' = IF Has(store, id) THEN Put(store, Restored(store[id])) ELSE store
  /\ saved' = IF lastOp.name = "deleteBundle" /\ lastOp.id = id THEN saved ELSE <<>>
  /\ Called("restoreBundle", id, <<>>, 0, FALSE, now)
  /\ UNCHANGED <<usedIds, nextItemId>>

permanentlyDeleteBundle(id) ==
  /\ steps < MaxOps
  /\ store' = Delete(store, id)
  /\ Called("permanentlyDeleteBundle", id, <<>>, 0, FALSE, now)
  /\ saved' = <<>>
  /\ UNCHANGED <<usedIds, nextItemId>>

mergeBundles(bundleIds, newTitle, id, tc, tu) ==
  /\ steps < MaxOps
  /\ id \in BundleIds \ usedIds
  /\ store' = Put(store, MergedBundle(store, bundleIds, newTitle, id, tc, tu))
  /\ usedIds' = usedIds \cup {id}
  /\ Called("mergeBundles", 0, bundleIds, id, FALSE, tu)
  /\ saved' = <<>>
  /\ UNCHANGED nextItemId

\* The item operations share one shape: a transaction that reads the bundle,
\* and either puts the record changed, or leaves the table alone (no such
\* bundle, no such item), or is aborted by an exception thrown in its body.
ItemCall(name, bundleId, found, throws, changed, t) ==
  /\ IF Has(store, bundleId) /\ throws
     THEN UNCHANGED store /\ Called(name, bundleId, <<>>, 0, TRUE, now)
     ELSE IF Has(store, bundleId) /\ found
     THEN store' = Put(store, changed) /\ Called(name, bundleId, <<>>, 0, FALSE, t)
     ELSE UNCHANGED store /\ Called(name, bundleId, <<>>, 0, FALSE, now)
  /\ saved' = <<>>
  /\ UNCHANGED usedIds

addItemToBundle(bundleId, title, t) ==
  /\ steps < MaxOps
  /\ ItemCall("addItemToBundle", bundleId, TRUE, FALSE,
              WithItemsAdded(store[bundleId], <<Item(nextItemId, title)>>, t), t)
  /\ nextItemId' = nextItemId + 1

addItemsToBundle(bundleId, title, t) ==
  /\ steps < MaxOps
  /\ ItemCall("addItemsToBundle", bundleId, TRUE, FALSE,
              WithItemsAdded(store[bundleId],
                             <<Item(nextItemId, title), Item(nextItemId + 1, title)>>, t), t)
  /\ nextItemId' = nextItemId + 2

updateItemInBundle(bundleId, itemId, itemUpdates, t) ==
  /\ steps < MaxOps
  /\ ItemCall("updateItemInBundle", bundleId,
              FindIndex(store[bundleId].items, itemId) > 0,
              FindIndexThrows(store[bundleId].items, itemId),
              WithItemUpdated(store[bundleId], itemId, itemUpdates, t), t)
  /\ UNCHANGED nextItemId

duplicateItemInBundle(bundleId, itemId, t) ==
  /\ steps < MaxOps
  /\ ItemCall("duplicateItemInBundle", bundleId,
              FindIndex(store[bundleId].items, itemId) > 0,
              FindIndexThrows(store[bundleId].items, itemId),
              WithItemDuplicated(store[bundleId], itemId, nextItemId, t), t)
  /\ nextItemId' = nextItemId + 1

removeItemFromBundle(bundleId, itemId, t) ==
  /\ steps < MaxOps
  /\ ItemCall("removeItemFromBundle", bundleId, TRUE,
              FilterThrows(store[bundleId].items),
              WithItemsRemoved(store[bundleId], {itemId}, t), t)
  /\ UNCHANGED nextItemId

removeItemsFromBundle(bundleId, itemIds, t) ==
  /\ steps < MaxOps
  /\ ItemCall("removeItemsFromBundle", bundleId, TRUE,
              FilterThrows(store[bundleId].items),
              WithItemsRemoved(store[bundleId], itemIds, t), t)
  /\ UNCHANGED nextItemId

moveItemInBundle(bundleId, fromIndex, toIndex, t) ==
  /\ steps < MaxOps
  /\ ItemCall("moveItemInBundle", bundleId, TRUE, FALSE,
              WithItemMoved(store[bundleId], fromIndex, toIndex, t), t)
  /\ UNCHANGED nextItemId

\* ------------------------------------------------------------------ system
\* The table as an earlier session left it: empty, or holding what
\* addBundle, addItemToBundle, updateBundle and archiveBundles had put there
\* at time 0.
Seed ==
  (2 :> [NewBundle(2, "A", 0, 0) EXCEPT !.items = <<Item(1, "x"), Item(2, "x")>>,
                                        !.isArchived = TRUE])
    @@ (3 :> [NewBundle(3, "B", 0, 0) EXCEPT !.items = <<Item(3, "x")>>, !.isPinned = TRUE])

MaxItemId(s) ==
  LET ids == UNION {{s[k].items[i].id : i \in DOMAIN s[k].items} : k \in DOMAIN s}
  IN IF ids = {} THEN 0 ELSE CHOOSE m \in ids : \A n \in ids : n <= m

Init ==
  /\ store \in {<<>>, Seed}
  /\ now = 0
  /\ usedIds = DOMAIN store
  /\ nextItemId = MaxItemId(store) + 1
  /\ lastOp = NoOp
  /\ saved = <<>>
  /\ steps = 0
  /\ calls = <<>>
  /\ txOwner = 0
  /\ base = <<>>
  /\ pkg = NoFile
  /\ ui = NoUi

Next ==
  \/ steps < MaxOps /\ \E title \in NewTitles, id \in BundleIds, tc \in Clock(now) : \E tu \in tc..(now + 1) :
       addBundle(title, id, tc, tu)
  \/ steps < MaxOps /\ \E bundleData \in ImportSet(store), id \in BundleIds, tc \in Clock(now) : \E tu \in tc..(now + 1) :
       importBundle(bundleData, id, tc, tu)
  \/ steps < MaxOps /\ \E bundleId \in TargetIds, id \in BundleIds, tc \in Clock(now) : \E tu \in tc..(now + 1) :
       duplicateBundle(bundleId, id, tc, tu)
  \/ steps < MaxOps /\ \E id \in TargetIds, updates \in UpdateSet, t \in Clock(now) : updateBundle(id, updates, t)
  \/ steps < MaxOps /\ \E id \in TargetIds, t \in Clock(now) : deleteBundle(id, t)
  \/ steps < MaxOps /\ \E ids \in SUBSET TargetIds, t \in Clock(now) : deleteBundles(ids, t)
  \/ steps < MaxOps /\ \E ids \in SUBSET TargetIds : archiveBundles(ids)
  \/ steps < MaxOps /\ \E id \in TargetIds : restoreBundle(id)
  \/ steps < MaxOps /\ \E id \in TargetIds : permanentlyDeleteBundle(id)
  \/ steps < MaxOps /\ \E bundleIds \in MergeSet, newTitle \in NewTitles, id \in BundleIds, tc \in Clock(now) :
       \E tu \in tc..(now + 1) : mergeBundles(bundleIds, newTitle, id, tc, tu)
  \/ steps < MaxOps /\ \E bundleId \in TargetIds, t \in Clock(now) : addItemToBundle(bundleId, "x", t)
  \/ steps < MaxOps /\ \E bundleId \in TargetIds, t \in Clock(now) : addItemsToBundle(bundleId, "x", t)
  \/ steps < MaxOps /\ \E bundleId \in TargetIds, itemUpdates \in ItemUpdateSet, t \in Clock(now) :
       \E itemId \in ItemIdSet(store, bundleId, nextItemId) :
       updateItemInBundle(bundleId, itemId, itemUpdates, t)
  \/ steps < MaxOps /\ \E bundleId \in TargetIds, t \in Clock(now) :
       \E itemId \in ItemIdSet(store, bundleId, nextItemId) :
       duplicateItemInBundle(bundleId, itemId, t)
  \/ steps < MaxOps /\ \E bundleId \in TargetIds, t \in Clock(now) :
       \E itemId \in ItemIdSet(store, bundleId, nextItemId) :
       removeItemFromBundle(bundleId, itemId, t)
  \/ steps < MaxOps /\ \E bundleId \in TargetIds, t \in Clock(now) :
       \E itemIds \in RemoveSet(store, bundleId, nextItemId) :
       removeItemsFromBundle(bundleId, itemIds, t)
  \/ steps < MaxOps /\ \E bundleId \in TargetIds, t \in Clock(now) :
       \E fromIndex \in MoveIndexes(store, bundleId), toIndex \in MoveIndexes(store, bundleId) :
       moveItemInBundle(bundleId, fromIndex, toIndex, t)

Spec == Init /\ [][Next]_vars

\* ------------------------------------------------------------------ calls in flight
\* Two calls of the hook that are in flight together.  Each runs the body
\* of its db.transaction('rw', 'bundles', ...) as the steps the body awaits:
\* the transaction starts, get, put, the transaction completes.
Callers == {1, 2}

\* The calls: the operation, the bundle it names, and its argument (the id
\* of the item to add, the partial update; each read by its operation only).
CallSet(c) ==
  {[name |-> n, id |-> k, item |-> nextItemId + c, updates |-> [title |-> "B"]] :
     n \in {"addItemToBundle", "deleteBundle", "restoreBundle", "archiveBundles",
            "permanentlyDeleteBundle"},
     k \in DOMAIN Seed}
    \cup {[name |-> "updateBundle", id |-> k, item |-> nextItemId + c, updates |-> u] :
            k \in DOMAIN Seed, u \in {[title |-> "B"], [isPinned |-> TRUE]}}

\* The record the body of call puts, from the record it got, at time t.
Changed(call, bundle, t) ==
  CASE call.name = "addItemToBundle" -> WithItemsAdded(bundle, <<Item(call.item, "x")>>, t)
    [] call.name = "updateBundle" -> UpdatedBundle(bundle, call.updates, t)
    [] call.name = "deleteBundle" -> SoftDeleted(bundle, t)
    [] call.name = "restoreBundle" -> Restored(bundle)
    [] call.name = "archiveBundles" -> Archived(bundle)

\* The table after the write of the call's body: db.bundles.delete(id) for
\* permanentlyDeleteBundle, and for the others the put of the record changed,
\* which the body does only when its get found a record.
Written(s, call, local, t) ==
  IF call.name = "permanentlyDeleteBundle" THEN Delete(s, call.id)
  ELSE IF local # <<>> THEN Put(s, Changed(call, local[1], t))
  ELSE s

GotOrBlank(s, call) ==
  IF call.name = "permanentlyDeleteBundle" THEN <<>>
  ELSE IF Has(s, call.id) THEN <<s[call.id]>>
  ELSE <<[BundleDefaults EXCEPT !.id = call.id]>>

\* What the body's read leaves in its local: the record db.bundles.get(id)
\* (anyOf([id]).toArray()) finds, or nothing; permanentlyDeleteBundle reads
\* nothing.
Got(s, call) ==
  IF call.name = "permanentlyDeleteBundle" THEN <<>>
  ELSE IF Has(s, call.id) THEN <<s[call.id]>>
  ELSE <<>>

TransactionStartsAtOnce(owner) == TRUE

\* A 'rw' transaction on the table starts when no other one is live: the
\* scopes of any two of them overlap.
TransactionMayStart(owner) == owner = 0

SetCall(c, pc, local) == calls' = [calls EXCEPT ![c].pc = pc, ![c].local = local]

TxBegin(c) ==
  /\ calls[c].pc = "begin"
  /\ TransactionMayStart(txOwner)
  /\ txOwner' = c
  /\ SetCall(c, "get", <<>>)
  /\ UNCHANGED <<store, now, usedIds, nextItemId, lastOp, saved, steps, base, pkg, ui>>

\* const bundle = await db.bundles.get(id)
TxGet(c) ==
  /\ calls[c].pc = "get"
  /\ SetCall(c, "put", Got(store, calls[c].call))
  /\ UNCHANGED <<store, now, usedIds, nextItemId, lastOp, saved, steps, txOwner, base, pkg, ui>>

\* if (bundle) { ...; await db.bundles.put(...) }
TxPut(c, t) ==
  /\ calls[c].pc = "put"
  /\ store' = Written(store, calls[c].call, calls[c].local, t)
  /\ now' = IF calls[c].local # <<>> THEN t ELSE now
  /\ SetCall(c, "commit", calls[c].local)
  /\ UNCHANGED <<usedIds, nextItemId, lastOp, saved, steps, txOwner, base, pkg, ui>>

TxCommit(c) ==
  /\ calls[c].pc = "commit"
  /\ txOwner' = IF txOwner = c THEN 0 ELSE txOwner
  /\ SetCall(c, "done", <<>>)
  /\ UNCHANGED <<store, now, usedIds, nextItemId, lastOp, saved, steps, base, pkg, ui>>

InitConc ==
  /\ store = Seed
  /\ now = 0
  /\ usedIds = DOMAIN store
  /\ nextItemId = MaxItemId(store) + 1
  /\ lastOp = NoOp
  /\ saved = <<>>
  /\ steps = 0
  /\ \E c1 \in CallSet(0), c2 \in CallSet(1) :
       calls = [c \in Callers |-> [call |-> IF c = 1 THEN c1 ELSE c2, pc |-> "begin", local |-> <<>>]]
  /\ txOwner = 0
  /\ base = store
  /\ pkg = NoFile
  /\ ui = NoUi

NextConc ==
  \/ \E c \in Callers : TxBegin(c)
  \/ \E c \in Callers : TxGet(c)
  \/ \E c \in Callers, t \in Clock(now) : TxPut(c, t)
  \/ \E c \in Callers : TxCommit(c)

SpecConc == InitConc /\ [][NextConc]_vars

\* ------------------------------------------------------------------ package
\* The package codec (services/bundleService) and the file import of the
\* home screen.  An archive is its entries by name; binary content is a
\* sequence of bytes, a base64 text a sequence of digits 0..63 and Pad.
ManifestName == "manifest.json"

Pad == 64

RECURSIVE Base64Encode(_)
\* The base64 text of bytes (FileReader.readAsDataURL, async('base64')).
Base64Encode(b) ==
  IF Len(b) = 0 THEN <<>>
  ELSE IF Len(b) = 1 THEN <<b[1] \div 4, (b[1] % 4) * 16, Pad, Pad>>
  ELSE IF Len(b) = 2
  THEN <<b[1] \div 4, (b[1] % 4) * 16 + b[2] \div 16, (b[2] % 16) * 4, Pad>>
  ELSE <<b[1] \div 4, (b[1] % 4) * 16 + b[2] \div 16, (b[2] % 16) * 4 + b[3] \div 64, b[3] % 64>>
         \o Base64Encode(SubSeq(b, 4, Len(b)))

RECURSIVE atob(_)
\* The bytes a base64 text stands for.
atob(d) ==
  IF Len(d) < 4 THEN <<>>
  ELSE IF d[3] = Pad THEN <<d[1] * 4 + d[2] \div 16>>
  ELSE IF d[4] = Pad THEN <<d[1] * 4 + d[2] \div 16, (d[2] % 16) * 16 + d[3] \div 4>>
  ELSE <<d[1] * 4 + d[2] \div 16, (d[2] % 16) * 16 + d[3] \div 4, (d[3] % 4) * 64 + d[4]>>
         \o atob(SubSeq(d, 5, Len(d)))

\* `data:${mimeType};base64,${base64}`; no mime type holds a comma.
DataUrl(mimeType, base64) == [mimeType |-> mimeType, base64 |-> base64]

\* base64ToBlob(content, mimeType): atob(content.split(',')[1]), byte by byte.
base64ToBlob(content) == atob(content.base64)

\* SHA-256 of the bytes: one digest for each content.
calculateChecksum(bytes) == <<"sha256", bytes>>

IsBinary(item) == item.type \in {"file", "audio", "drawing"}

\* The item handleAddFiles builds for a file of this name and content.
FileItem(id, filename, bytes) ==
  [id |-> id, title |-> filename, isPinned |-> FALSE, type |-> "file", filename |-> filename,
   mimeType |-> "text/plain", content |-> DataUrl("text/plain", Base64Encode(bytes)),
   checksum |-> calculateChecksum(bytes)]

\* The item handleAddDrawing builds: the file name is made from the title.
DrawingItem(id, title, bytes) ==
  [id |-> id, title |-> title, isPinned |-> FALSE, type |-> "drawing",
   filename |-> title \o ".png", mimeType |-> "image/png",
   content |-> DataUrl("image/png", Base64Encode(bytes))]

NoteItem(id) == [id |-> id, title |-> "n", isPinned |-> FALSE, type |-> "note"]

\* const { content, ...rest } = item
StripContent(item) == [f \in DOMAIN item \ {"content"} |-> item[f]]

\* The manifest object of createPackage.
Manifest(bundle) ==
  [bundle_id |-> bundle.id, created_at |-> bundle.createdAt, title |-> bundle.title,
   items |-> [i \in DOMAIN bundle.items |->
                IF IsBinary(bundle.items[i]) THEN StripContent(bundle.items[i])
                ELSE bundle.items[i]],
   format_version |-> 1, encrypted |-> FALSE]

\* An entry written from JSON.stringify(value): JSON.parse of its text gives
\* the value back.  An entry written from a blob holds its bytes.
TextEntry(json) == [kind |-> "text", json |-> json]
BlobEntry(bytes) == [kind |-> "blob", bytes |-> bytes]

EmptyZip == [n \in {} |-> BlobEntry(<<>>)]

\* zip.file(name, data): the entry of that name is set, replacing the one
\* the archive had under the name.
ZipFile(zip, name, entry) ==
  [n \in DOMAIN zip \cup {name} |-> IF n = name THEN entry ELSE zip[n]]

RECURSIVE ZipFiles(_, _)
\* bundle.items.forEach: one zip.file per binary-bearing item, in list order.
ZipFiles(zip, items) ==
  IF items = <<>> THEN zip
  ELSE ZipFiles(IF IsBinary(Head(items))
                THEN ZipFile(zip, Head(items).filename, BlobEntry(base64ToBlob(Head(items).content)))
                ELSE zip,
                Tail(items))

\* The archive createPackage returns (generateAsync) and loadAsync reads.
PackageOf(bundle) ==
  ZipFiles(ZipFile(EmptyZip, ManifestName, TextEntry(Manifest(bundle))), bundle.items)

\* item.mimeType || 'application/octet-stream'
MimeOrDefault(mimeType) == IF mimeType = "" THEN "application/octet-stream" ELSE mimeType

\* The map callback of readPackage.
ReadItem(zip, item) ==
  IF IsBinary(item) /\ item.filename \in DOMAIN zip
  THEN Spread(item, [content |-> DataUrl(MimeOrDefault(item.mimeType),
                                         Base64Encode(zip[item.filename].bytes))])
  ELSE item

readPackageLenient(zip) ==
  IF ManifestName \notin DOMAIN zip \/ zip[ManifestName].kind # "text"
  THEN [threw |-> FALSE, data |-> <<[title |-> "", items |-> <<>>]>>]
  ELSE [threw |-> FALSE,
        data |-> <<[title |-> zip[ManifestName].json.title,
                    items |-> [i \in DOMAIN zip[ManifestName].json.items |->
                                 ReadItem(zip, zip[ManifestName].json.items[i])]]>>]

\* readPackage: throws when the archive has no manifest.json, or when
\* JSON.parse does not take the entry's content; else the title and the
\* items of the manifest, content attached.
readPackage(zip) ==
  IF ManifestName \notin DOMAIN zip \/ zip[ManifestName].kind # "text"
  THEN [threw |-> TRUE, data |-> <<>>]
  ELSE [threw |-> FALSE,
        data |-> <<[title |-> zip[ManifestName].json.title,
                    items |-> [i \in DOMAIN zip[ManifestName].json.items |->
                                 ReadItem(zip, zip[ManifestName].json.items[i])]]>>]

\* The contents of the files a user attaches or draws.
ByteSet == {<<77>>, <<77, 97>>, <<77, 97, 110, 255>>}

\* The items of the bundles that are exported: files named by the user (one
\* of the names is that of the manifest entry, one that of the drawing's
\* file), a drawing, a note.
PackageItems(id) ==
  {FileItem(id, f, b) : f \in {"a.png", ManifestName}, b \in ByteSet}
    \cup {DrawingItem(id, "a", b) : b \in {<<77>>, <<77, 97>>}}
    \cup {NoteItem(id)}

\* The bundles createPackage is called with: up to two items, their ids
\* distinct.
PackageBundles ==
  {[NewBundle(1, title, 0, 0) EXCEPT !.items = items] :
     title \in {"A", "P"},
     items \in {<<>>} \cup {<<a>> : a \in PackageItems(1)}
                 \cup {<<a, b>> : a \in PackageItems(1), b \in PackageItems(2)}}

\* Files chosen for import that createPackage did not write: an archive
\* with no entry, and one with a binary entry only.
ForeignFiles == {EmptyZip, ZipFile(EmptyZip, "a.png", BlobEntry(<<77>>))}

\* handleConfirmExport: createPackage(bundle) and saveAs.
createPackage(bundle) ==
  /\ pkg.file = <<>>
  /\ pkg' = [pkg EXCEPT !.bundle = <<bundle>>, !.file = <<PackageOf(bundle)>>]
  /\ UNCHANGED <<store, now, usedIds, nextItemId, lastOp, saved, steps, calls, txOwner, base, ui>>

\* The user picks a file in the import dialog that is no package of the app.
chooseForeignFile(zip) ==
  /\ pkg.file = <<>>
  /\ pkg' = [pkg EXCEPT !.file = <<zip>>]
  /\ UNCHANGED <<store, now, usedIds, nextItemId, lastOp, saved, steps, calls, txOwner, base, ui>>

\* bundles?.find(b => b.title === newBundleData.title), bundles the live
\* query's result: the records that are not deleted.
ExistingBundle(s, title) == \E k \in DOMAIN s : ~s[k].isDeleted /\ s[k].title = title

\* processImportFile(file): readPackage, then processImportData, which
\* raises the conflict dialog when a bundle of that title exists and calls
\* importBundle when none does; an exception of readPackage ends in a toast.
processImportFile(id, tc, tu) ==
  /\ steps < MaxOps
  /\ pkg.file # <<>>
  /\ pkg.outcome = "none"
  /\ LET read == readPackage(pkg.file[1])
     IN IF read.threw
        THEN /\ pkg' = [pkg EXCEPT !.outcome = "failed"]
             /\ UNCHANGED <<store, now, usedIds, lastOp, steps>>
        ELSE IF ExistingBundle(store, read.data[1].title)
        THEN /\ \E k \in DOMAIN store :
                  /\ ~store[k].isDeleted
                  /\ store[k].title = read.data[1].title
                  /\ pkg' = [pkg EXCEPT !.outcome = "conflict", !.data = read.data,
                                        !.existing = k]
             /\ UNCHANGED <<store, now, usedIds, lastOp, steps>>
        ELSE /\ id \in BundleIds \ usedIds
             /\ store' = Put(store, ImportedBundle(read.data[1], id, tc, tu))
             /\ usedIds' = usedIds \cup {id}
             /\ now' = tu
             /\ steps' = steps + 1
             /\ lastOp' = [name |-> "importBundle", id |-> 0, ids |-> <<>>, new |-> id,
                           threw |-> FALSE]
             /\ pkg' = [pkg EXCEPT !.outcome = "imported", !.data = read.data]
  /\ UNCHANGED <<nextItemId, saved, calls, txOwner, base, ui>>

\* handleImportReplace on the conflict dialog: permanentlyDeleteBundle of
\* the existing bundle, then importBundle of the data read. db.bundles.add
\* stores the record or rejects (the origin's quota is used up, the
\* database was closed): stored says which. Nothing catches the rejection.
handleImportReplace(id, tc, tu, stored) ==
  /\ steps < MaxOps
  /\ pkg.outcome = "conflict"
  /\ id \in BundleIds \ usedIds
  /\ IF stored
     THEN /\ store' = Put(Delete(store, pkg.existing), ImportedBundle(pkg.data[1], id, tc, tu))
          /\ usedIds' = usedIds \cup {id}
          /\ now' = tu
          /\ lastOp' = [name |-> "importBundle", id |-> 0, ids |-> <<>>, new |-> id,
                        threw |-> FALSE]
          /\ pkg' = [pkg EXCEPT !.outcome = "replaced"]
     ELSE /\ store' = Delete(store, pkg.existing)
          /\ lastOp' = [name |-> "importBundle", id |-> 0, ids |-> <<>>, new |-> 0,
                        threw |-> TRUE]
          /\ pkg' = [pkg EXCEPT !.outcome = "replace failed"]
          /\ UNCHANGED <<usedIds, now>>
  /\ steps' = steps + 1
  /\ UNCHANGED <<nextItemId, saved, calls, txOwner, base, ui>>

NextPkg ==
  \/ \E bundle \in PackageBundles : createPackage(bundle)
  \/ \E zip \in ForeignFiles : chooseForeignFile(zip)
  \/ \E id \in BundleIds, tc \in Clock(now) : \E tu \in tc..(now + 1) :
       processImportFile(id, tc, tu)
  \/ \E id \in BundleIds, tc \in Clock(now), stored \in BOOLEAN : \E tu \in tc..(now + 1) :
       handleImportReplace(id, tc, tu, stored)

SpecPkg == Init /\ [][NextPkg]_vars

\* ------------------------------------------------------------------ views
\* The derived lists of the home screen, as the sets of the ids they hold,
\* with an empty search query (every title includes "").
\* bundles of useBundles: the records that are not deleted.
bundles(s) == {k \in DOMAIN s : s[k].isDeleted # TRUE}

deletedBundles(s) == {k \in DOMAIN s : s[k].isDeleted = TRUE}

archivedBundlesDeletedToo(s) == {k \in DOMAIN s : s[k].isArchived = TRUE}

archivedBundles(s) == {k \in DOMAIN s : s[k].isArchived = TRUE /\ ~s[k].isDeleted}

\* allBundles.pinned and allBundles.active.
pinned(s) == {k \in bundles(s) : s[k].isPinned /\ ~s[k].isArchived /\ ~s[k].isDeleted}

active(s) == {k \in bundles(s) : ~s[k].isPinned /\ ~s[k].isArchived /\ ~s[k].isDeleted}

\* The search texts of the editor: none, and one that occurs in the JSON
\* text of the items titled "y" and of no others.
Queries == {"", "y"}

\* JSON.stringify(item).toLowerCase().includes(lowercasedQuery)
Matches(item, searchQuery) == searchQuery = "" \/ item.title = searchQuery

\* processedItems of the editor: the items the query keeps, the pinned ones
\* first (Array.prototype.sort is stable).
processedItems(items, searchQuery) ==
  LET kept == SelectSeq(items, LAMBDA it : Matches(it, searchQuery))
  IN SelectSeq(kept, LAMBDA it : it.isPinned) \o SelectSeq(kept, LAMBDA it : ~it.isPinned)

\* handleDrop of the editor: the positions are those of the cards shown,
\* which the editor renders from processedItems.
handleDrop(bundleId, searchQuery, draggedItemIndex, dropIndex, t) ==
  /\ Has(store, bundleId)
  /\ \A j \in DOMAIN store[bundleId].items : ~IsHole(store[bundleId].items[j])
  /\ draggedItemIndex \in 0..(Len(processedItems(store[bundleId].items, searchQuery)) - 1)
  /\ dropIndex \in 0..(Len(processedItems(store[bundleId].items, searchQuery)) - 1)
  /\ draggedItemIndex # dropIndex
  /\ moveItemInBundle(bundleId, draggedItemIndex, dropIndex, t)

\* ------------------------------------------------------------------ checklist
\* A checklist card of the editor. The card computes every edit from its
\* item prop, the item of the bundle the editor's live query delivered
\* last; ui.item is that prop, ui.edits the edits made since it was
\* delivered.
Entry(id, checked) == [id |-> id, checked |-> checked]

ChecklistItem(id, entries) == [id |-> id, title |-> "x", isPinned |-> FALSE, items |-> entries]

\* findAndToggle on the deep copy of the entries.
Toggled(entries, id) ==
  [i \in DOMAIN entries |->
     IF entries[i].id = id THEN [entries[i] EXCEPT !.checked = ~entries[i].checked]
     ELSE entries[i]]

\* findAndRemove on the deep copy of the entries.
Removed(entries, id) == SelectSeq(entries, LAMBDA node : node.id # id)

Edit(kind, id) == [kind |-> kind, id |-> id]

Edited(entries, edit) ==
  IF edit.kind = "toggle" THEN Toggled(entries, edit.id) ELSE Removed(entries, edit.id)

\* onUpdate({items: newItems}) of the card: handleUpdateItem, which calls
\* updateItemInBundle(bundleId, item.id, updates); the transactions of two
\* calls commit in the order of the calls.
onUpdate(newItems, edit, t) ==
  /\ steps < MaxOps
  /\ ui.screen = "editor"
  /\ LET bundleId == ui.bundleId
         itemId == ui.item.id
     IN IF Has(store, bundleId) /\ FindIndex(store[bundleId].items, itemId) > 0
        THEN /\ store' = Put(store, WithItemUpdated(store[bundleId], itemId,
                                                    [items |-> newItems], t))
             /\ now' = t
        ELSE UNCHANGED <<store, now>>
  /\ steps' = steps + 1
  /\ lastOp' = [name |-> "updateItemInBundle", id |-> ui.bundleId, ids |-> <<>>, new |-> 0,
                threw |-> FALSE]
  /\ ui' = [ui EXCEPT !.edits = Append(ui.edits, edit)]
  /\ UNCHANGED <<usedIds, nextItemId, saved, calls, txOwner, base, pkg>>

toggleItem(id, t) ==
  /\ ui.screen = "editor"
  /\ \E i \in DOMAIN ui.item.items : ui.item.items[i].id = id
  /\ onUpdate(Toggled(ui.item.items, id), Edit("toggle", id), t)

removeItem(id, t) ==
  /\ ui.screen = "editor"
  /\ \E i \in DOMAIN ui.item.items : ui.item.items[i].id = id
  /\ onUpdate(Removed(ui.item.items, id), Edit("remove", id), t)

\* The live query of the editor delivers the bundle as stored and the card
\* is rendered with its item.
renderCard ==
  /\ ui.screen = "editor"
  /\ Has(store, ui.bundleId)
  /\ FindIndex(store[ui.bundleId].items, ui.item.id) > 0
  /\ ui.edits # <<>>
  /\ ui' = [ui EXCEPT !.item = store[ui.bundleId].items[FindIndex(store[ui.bundleId].items,
                                                                  ui.item.id)],
                      !.edits = <<>>]
  /\ UNCHANGED <<store, now, usedIds, nextItemId, lastOp, saved, steps, calls, txOwner, base,
                 pkg>>

\* The editor open on a bundle whose one item is a checklist of three
\* entries, rendered as stored.
InitChecklist ==
  /\ \E c \in [1..3 -> BOOLEAN] :
       /\ store = (2 :> [NewBundle(2, "A", 0, 0) EXCEPT
                           !.items = <<ChecklistItem(1, <<Entry(1, c[1]), Entry(2, c[2]),
                                                          Entry(3, c[3])>>)>>])
       /\ ui = [screen |-> "editor", bundleId |-> 2, item |-> store[2].items[1],
                edits |-> <<>>]
  /\ now = 0
  /\ usedIds = DOMAIN store
  /\ nextItemId = 2
  /\ lastOp = NoOp
  /\ saved = <<>>
  /\ steps = 0
  /\ calls = <<>>
  /\ txOwner = 0
  /\ base = <<>>
  /\ pkg = NoFile

NextChecklist ==
  \/ \E id \in 1..3, t \in Clock(now) : toggleItem(id, t)
  \/ \E id \in 1..3, t \in Clock(now) : removeItem(id, t)
  \/ renderCard

SpecChecklist == InitChecklist /\ [][NextChecklist]_vars

\* ------------------------------------------------------------------ quick add
\* The home screen opened by the bookmarklet with ?url=...: ui.url says the
\* route still carries the parameter, ui.bundles is the result the live
\* query of useBundles delivered last (none before the first), ui.runs the
\* calls of quickAddItem started so far, each at the await it stands at.
IsInbox(title) == title \in {"Inbox", "inbox", "INBOX"}

\* title || url of the link item.
QuickAddTitle == "link"

\* The store of an earlier session that holds a bundle named inbox.
SeedWithInbox == Seed @@ (1 :> NewBundle(1, "inbox", 0, 0))

\* The records the live query returns.
LiveBundles(s) == [k \in bundles(s) |-> s[k]]

SetRun(r, pc, target) == ui' = [ui EXCEPT !.runs[r] = [pc |-> pc, target |-> target]]

\* The live query delivers a new result, the home screen renders and the
\* effect, which has bundles among its dependencies, runs: quickAddItem()
\* looks for the inbox in that result and calls addItemToBundle when there
\* is one and addBundle('Inbox') when there is none.
deliverBundles ==
  /\ ui.screen = "home"
  /\ ui.url
  /\ ui.bundles # <<LiveBundles(store)>>
  /\ Len(ui.runs) < MaxRuns
  /\ LET found == {k \in bundles(store) : IsInbox(store[k].title)}
     IN IF found = {}
        THEN ui' = [ui EXCEPT !.bundles = <<LiveBundles(store)>>,
                              !.runs = Append(ui.runs, [pc |-> "addBundle", target |-> 0])]
        ELSE \E k \in found :
               ui' = [ui EXCEPT !.bundles = <<LiveBundles(store)>>,
                                !.runs = Append(ui.runs, [pc |-> "addItem", target |-> k])]
  /\ UNCHANGED <<store, now, usedIds, nextItemId, lastOp, saved, steps, calls, txOwner, base,
                 pkg>>

\* await addBundle('Inbox') of run r returns: the bundle is stored and
\* addItemToBundle(newBundleId, newLink) is called.
inboxAdded(r, id, tc, tu) ==
  /\ r \in DOMAIN ui.runs
  /\ ui.runs[r].pc = "addBundle"
  /\ id \in BundleIds \ usedIds
  /\ store' = Put(store, NewBundle(id, "Inbox", tc, tu))
  /\ usedIds' = usedIds \cup {id}
  /\ now' = tu
  /\ lastOp' = [name |-> "addBundle", id |-> 0, ids |-> <<>>, new |-> id, threw |-> FALSE]
  /\ SetRun(r, "addItem", id)
  /\ UNCHANGED <<nextItemId, saved, steps, calls, txOwner, base, pkg>>

\* await addItemToBundle(targetBundle.id, newLink) of run r returns.
linkAdded(r, t) ==
  /\ r \in DOMAIN ui.runs
  /\ ui.runs[r].pc = "addItem"
  /\ IF Has(store, ui.runs[r].target)
     THEN /\ store' = Put(store, WithItemsAdded(store[ui.runs[r].target],
                                                <<Item(nextItemId, QuickAddTitle)>>, t))
          /\ now' = t
     ELSE UNCHANGED <<store, now>>
  /\ nextItemId' = nextItemId + 1
  /\ lastOp' = [name |-> "addItemToBundle", id |-> ui.runs[r].target, ids |-> <<>>,
                new |-> 0, threw |-> FALSE]
  /\ SetRun(r, "navigate", ui.runs[r].target)
  /\ UNCHANGED <<usedIds, saved, steps, calls, txOwner, base, pkg>>

\* showToast, onNavigateToEditor(targetBundle.id) and replaceState of run r:
\* the hash becomes #/bundle/<id>, the route has no parameters any more and
\* the home screen is unmounted.
navigated(r) ==
  /\ r \in DOMAIN ui.runs
  /\ ui.runs[r].pc = "navigate"
  /\ ui' = [ui EXCEPT !.screen = "editor", !.url = FALSE,
                      !.runs[r] = [pc |-> "done", target |-> ui.runs[r].target]]
  /\ UNCHANGED <<store, now, usedIds, nextItemId, lastOp, saved, steps, calls, txOwner, base,
                 pkg>>

InitQuickAdd ==
  /\ store \in {<<>>, Seed, SeedWithInbox}
  /\ now = 0
  /\ usedIds = DOMAIN store
  /\ nextItemId = MaxItemId(store) + 1
  /\ lastOp = NoOp
  /\ saved = <<>>
  /\ steps = 0
  /\ calls = <<>>
  /\ txOwner = 0
  /\ base = <<>>
  /\ pkg = NoFile
  /\ ui = [screen |-> "home", url |-> TRUE, bundles |-> <<>>, runs |-> <<>>]

NextQuickAdd ==
  \/ deliverBundles
  \/ \E r \in 1..MaxRuns, id \in BundleIds, tc \in Clock(now) : \E tu \in tc..(now + 1) :
       inboxAdded(r, id, tc, tu)
  \/ \E r \in 1..MaxRuns, t \in Clock(now) : linkAdded(r, t)
  \/ \E r \in 1..MaxRuns : navigated(r)

SpecQuickAdd == InitQuickAdd /\ [][NextQuickAdd]_vars

\* ------------------------------------------------------------------ claims
Bundles == DOMAIN store

\* The operations that name one existing bundle and are to change it in place.
InPlaceOps ==
  {"updateBundle", "deleteBundle", "restoreBundle", "addItemToBundle", "addItemsToBundle",
   "updateItemInBundle", "duplicateItemInBundle", "removeItemFromBundle",
   "removeItemsFromBundle", "moveItemInBundle"}

\* The operations that name one bundle id.
SingleIdOps == InPlaceOps \cup {"duplicateBundle", "permanentlyDeleteBundle"}

\* C1: softDelete(b.id) followed by restore(b.id) leaves the record with
\* isDeleted false and deletedAt unset, and with isArchived and items as they
\* were before the softDelete.
C1_SoftDeleteThenRestore ==
  (lastOp.name = "restoreBundle" /\ saved # <<>>) =>
    /\ Has(store, lastOp.id)
    /\ store[lastOp.id].isDeleted = FALSE
    /\ store[lastOp.id].deletedAt = Undefined
    /\ store[lastOp.id].isArchived = saved[1].isArchived
    /\ store[lastOp.id].items = saved[1].items

C1_Witness ==
  /\ lastOp.name = "restoreBundle"
  /\ saved # <<>>
  /\ saved[1].isArchived
  /\ Len(saved[1].items) = 2
  /\ ~saved[1].isDeleted

\* C2: no bundle is soft-deleted and pinned at the same time.
C2_NeverDeletedAndPinned ==
  \A k \in Bundles : ~(store[k].isDeleted /\ store[k].isPinned)

\* C3: deletedAt is set exactly when isDeleted is true.
C3_DeletedAtIffDeleted ==
  \A k \in Bundles : (store[k].deletedAt # Undefined) <=> store[k].isDeleted

\* C4: an operation that changes an existing bundle's record or items sets
\* that record's updatedAt to the time of the operation, and updatedAt is
\* never before createdAt.
C4_UpdatedAtRefreshed ==
  [][/\ \A k \in Bundles \cap DOMAIN store' :
          (lastOp'.name \in InPlaceOps \cup {"deleteBundles", "archiveBundles"}
             /\ store'[k] # store[k]) => store'[k].updatedAt = now'
     /\ \A k \in DOMAIN store' : store'[k].updatedAt >= store'[k].createdAt]_vars

\* C5: an operation invoked with a bundle id that is not in the store raises
\* no error and leaves the collection as it was.
C5_MissingIdIsNoOp ==
  [][(\/ lastOp'.name \in SingleIdOps /\ lastOp'.id \notin Bundles
      \/ lastOp'.name = "mergeBundles" /\ Range(lastOp'.ids) \cap Bundles = {}
      \/ \E ids \in SUBSET (TargetIds \ Bundles) : archiveBundles(ids)
      \/ \E ids \in SUBSET (TargetIds \ Bundles) : deleteBundles(ids, now))
       => store' = store /\ ~lastOp'.threw]_vars

RECURSIVE SumOfItemCounts(_, _)
SumOfItemCounts(s, S) ==
  IF S = {} THEN 0
  ELSE LET k == CHOOSE k \in S : TRUE
       IN Len(s[k].items) + SumOfItemCounts(s, S \ {k})

\* C6: merge(ids, title) on existing source bundles adds exactly one bundle,
\* whose item count is the sum of the sources' item counts, and leaves every
\* record that was in the store as it was.
C6_MergeAddsOneBundle ==
  [][(lastOp'.name = "mergeBundles" /\ Range(lastOp'.ids) \subseteq Bundles) =>
       /\ lastOp'.new \notin Bundles
       /\ DOMAIN store' = Bundles \cup {lastOp'.new}
       /\ Len(store'[lastOp'.new].items) = SumOfItemCounts(store, Range(lastOp'.ids))
       /\ \A k \in Bundles : store'[k] = store[k]]_vars

C6_Witness ==
  /\ lastOp.name = "mergeBundles"
  /\ Len(lastOp.ids) = 2
  /\ Range(lastOp.ids) \subseteq Bundles
  /\ Len(store[lastOp.new].items) = 3

RECURSIVE ConcatInGivenOrder(_, _)
ConcatInGivenOrder(s, ids) ==
  IF ids = <<>> THEN <<>>
  ELSE s[Head(ids)].items \o ConcatInGivenOrder(s, Tail(ids))

\* C7: the items of the merged bundle are the sources' items concatenated in
\* the order the ids were given.
C7_MergeInGivenOrder ==
  [][(lastOp'.name = "mergeBundles" /\ Range(lastOp'.ids) \subseteq Bundles) =>
       store'[lastOp'.new].items = ConcatInGivenOrder(store, lastOp'.ids)]_vars

\* C8: every item of a bundle has an id, and no two items of one bundle
\* share an id.
C8_ItemIdsUnique ==
  \A k \in Bundles :
    \A i \in DOMAIN store[k].items :
      ~IsHole(store[k].items[i]) =>
        /\ store[k].items[i].id # Undefined
        /\ \A j \in DOMAIN store[k].items : store[k].items[j].id = store[k].items[i].id => j = i

\* C10: an operation applied to an existing bundle leaves that record under
\* its id, adds no record and changes no other bundle's record.
C10_IdImmutable ==
  [][(lastOp'.name \in InPlaceOps /\ lastOp'.id \in Bundles) =>
       /\ DOMAIN store' = Bundles
       /\ store'[lastOp'.id].id = lastOp'.id
       /\ \A k \in Bundles \ {lastOp'.id} : store'[k] = store[k]]_vars


\* The whole call applied to the table s at time t.
Applied(s, call, t) ==
  IF call.name = "permanentlyDeleteBundle" THEN Delete(s, call.id)
  ELSE IF Has(s, call.id) THEN Put(s, Changed(call, s[call.id], t))
  ELSE s

\* The tables two calls leave when one runs to its end before the other starts.
SerialOutcomes(s, c1, c2) ==
  LET times == {q \in (0..now) \X (0..now) : q[1] <= q[2]}
  IN {Applied(Applied(s, c1, q[1]), c2, q[2]) : q \in times}
       \cup {Applied(Applied(s, c2, q[1]), c1, q[2]) : q \in times}

BothDone == \A c \in Callers : calls[c].pc = "done"

\* C9: two mutations that are in flight together leave the table as running
\* them one after the other, in one order or the other, leaves it.
C9_NoLostUpdate ==
  (calls # <<>> /\ BothDone) => store \in SerialOutcomes(base, calls[1].call, calls[2].call)

C9_Witness ==
  /\ calls # <<>>
  /\ BothDone
  /\ calls[1].call.id = calls[2].call.id
  /\ calls[1].call.name = "addItemToBundle"
  /\ calls[2].call.name = "updateBundle"
  /\ store[calls[1].call.id].title = "B"
  /\ Len(store[calls[1].call.id].items) = Len(base[calls[1].call.id].items) + 1

\* C11: reading back the archive createPackage made of a bundle gives, for
\* every File item, content that decodes to bytes whose checksum is the
\* item's checksum.
C11_PackageRoundTrip ==
  (pkg.bundle # <<>> /\ pkg.outcome # "none") =>
    /\ pkg.data # <<>>
    /\ Len(pkg.data[1].items) = Len(pkg.bundle[1].items)
    /\ \A i \in DOMAIN pkg.bundle[1].items :
         pkg.bundle[1].items[i].type = "file" =>
           /\ "content" \in DOMAIN pkg.data[1].items[i]
           /\ calculateChecksum(base64ToBlob(pkg.data[1].items[i].content))
                = pkg.bundle[1].items[i].checksum

\* C12: the archive createPackage builds holds the manifest under the
\* manifest entry's name and one binary entry for each File / Audio /
\* Drawing item of the bundle.
C12_OneEntryPerBinaryItem ==
  pkg.bundle # <<>> =>
    /\ ManifestName \in DOMAIN pkg.file[1]
    /\ pkg.file[1][ManifestName] = TextEntry(Manifest(pkg.bundle[1]))
    /\ Cardinality(DOMAIN pkg.file[1] \ {ManifestName})
         = Cardinality({i \in DOMAIN pkg.bundle[1].items : IsBinary(pkg.bundle[1].items[i])})

\* C13: readPackage on an archive with no manifest entry fails, and the
\* import that fails so adds no bundle and changes none.
C13_NoManifestAbortsImport ==
  [][pkg'.outcome # pkg.outcome =>
     \A id \in BundleIds, tc \in Clock(now) : \A tu \in tc..(now + 1) :
       (processImportFile(id, tc, tu) /\ ManifestName \notin DOMAIN pkg.file[1]) =>
         /\ readPackage(pkg.file[1]).threw
         /\ pkg'.outcome = "failed"
         /\ store' = store]_vars

C13_Witness ==
  /\ pkg.outcome = "failed"
  /\ pkg.bundle = <<>>
  /\ ManifestName \notin DOMAIN pkg.file[1]
  /\ "a.png" \in DOMAIN pkg.file[1]
  /\ store = Seed

\* The list q without its element at (1-based) position i.
Without(q, i) == SubSeq(q, 1, i - 1) \o SubSeq(q, i + 1, Len(q))

\* Every element of the list is an item (none is undefined or null).
AllItems(items) == \A j \in DOMAIN items : ~IsHole(items[j])

\* C14: import(bundleData) stores the new bundle under a fresh id with
\* createdAt and updatedAt read from the clock during the import, whatever
\* id, createdAt or updatedAt bundleData carries, and changes no record that
\* was in the store.
C14_ImportAssignsIdAndTimes ==
  [][lastOp'.name = "importBundle" =>
     \A bundleData \in ImportSet(store), id \in BundleIds, tc \in Clock(now) :
       \A tu \in tc..(now + 1) :
         importBundle(bundleData, id, tc, tu) =>
           /\ id \notin Bundles
           /\ DOMAIN store' = Bundles \cup {id}
           /\ store'[id].id = id
           /\ store'[id].createdAt \in Clock(now)
           /\ store'[id].updatedAt = now'
           /\ store'[id].createdAt <= store'[id].updatedAt
           /\ \A k \in Bundles : store'[k] = store[k]]_vars

C14_Witness ==
  /\ lastOp.name = "importBundle"
  /\ Has(store, lastOp.new)
  /\ store[lastOp.new].title = "C"
  /\ store[lastOp.new].createdAt # 9
  /\ Cardinality(Bundles) = 3

\* C15: archiveMany(ids) leaves every addressed existing bundle archived and
\* not pinned, with isDeleted, deletedAt and items as they were.
C15_ArchiveManyClearsPin ==
  [][lastOp'.name = "archiveBundles" =>
     \A ids \in SUBSET TargetIds :
       archiveBundles(ids) =>
         \A k \in ids \cap Bundles :
           /\ k \in DOMAIN store'
           /\ store'[k].isArchived
           /\ ~store'[k].isPinned
           /\ store'[k].isDeleted = store[k].isDeleted
           /\ store'[k].deletedAt = store[k].deletedAt
           /\ store'[k].items = store[k].items]_vars

C15_Witness ==
  /\ lastOp.name = "archiveBundles"
  /\ steps = 1
  /\ Has(store, 3)
  /\ store[3].isArchived
  /\ ~store[3].isPinned

\* C16: after update(b.id, {title: x}) on an existing bundle the stored
\* title is x, the fields other than title and updatedAt are as they were,
\* and updatedAt is strictly greater than it was.
C16_UpdateTitleBumpsUpdatedAt ==
  [][lastOp'.name = "updateBundle" =>
     \A id \in Bundles, t \in Clock(now) :
       updateBundle(id, [title |-> "B"], t) =>
         /\ store'[id].title = "B"
         /\ \A f \in DOMAIN store[id] \ {"title", "updatedAt"} : store'[id][f] = store[id][f]
         /\ store'[id].updatedAt > store[id].updatedAt]_vars

\* C17: moveItem(bundleId, from, to) with both indexes inside the list puts
\* the element that was at from at to, and leaves the other elements in
\* their order; the list is a permutation of what it was.
C17_MoveRelocatesOne ==
  [][lastOp'.name = "moveItemInBundle" =>
     \A bundleId \in Bundles \cap {lastOp'.id}, t \in Clock(now) :
       \A fromIndex \in 0..(Len(store[bundleId].items) - 1),
          toIndex \in 0..(Len(store[bundleId].items) - 1) :
         moveItemInBundle(bundleId, fromIndex, toIndex, t) =>
           /\ Len(store'[bundleId].items) = Len(store[bundleId].items)
           /\ store'[bundleId].items[toIndex + 1] = store[bundleId].items[fromIndex + 1]
           /\ Without(store'[bundleId].items, toIndex + 1)
                = Without(store[bundleId].items, fromIndex + 1)]_vars

C17_Witness ==
  /\ lastOp.name = "moveItemInBundle"
  /\ Has(store, 2)
  /\ store[2].items = <<Item(2, "x"), Item(4, "x"), Item(1, "x")>>

C20_MissingItemIsNoOp ==
  [][\A bundleId \in Bundles \cap {lastOp'.id}, t \in Clock(now) :
       (\/ \E itemUpdates \in ItemUpdateSet :
             updateItemInBundle(bundleId, nextItemId, itemUpdates, t)
        \/ duplicateItemInBundle(bundleId, nextItemId, t)
        \/ removeItemFromBundle(bundleId, nextItemId, t)
        \/ removeItemsFromBundle(bundleId, {nextItemId}, t))
         => store' = store /\ ~lastOp'.threw]_vars

\* C21: once permanentlyDelete(id) has completed, no record is stored under
\* id, whatever restore, update, archive, soft delete or item operation on
\* id was issued with it or is issued after it.
C21_PermanentlyDeletedStaysGone ==
  \A c \in Callers :
    (calls # <<>> /\ calls[c].call.name = "permanentlyDeleteBundle" /\ calls[c].pc = "done")
      => ~Has(store, calls[c].call.id)

C21_Witness ==
  /\ calls # <<>>
  /\ calls[1].call.name = "permanentlyDeleteBundle"
  /\ calls[1].pc = "done"
  /\ calls[2].call.name = "restoreBundle"
  /\ calls[2].call.id = calls[1].call.id
  /\ calls[2].pc = "done"
  /\ ~Has(store, calls[1].call.id)

\* The views of the home screen that hold the bundle k.
ViewsOf(s, k) ==
  {v \in {"pinned", "active", "archived", "deleted"} :
     k \in (CASE v = "pinned" -> pinned(s) [] v = "active" -> active(s)
              [] v = "archived" -> archivedBundles(s) [] v = "deleted" -> deletedBundles(s))}

\* C22: every bundle of the store is in exactly one of the views pinned,
\* active, archived, deleted; a deleted bundle is in the deleted view only,
\* and the pinned view holds no archived and no deleted bundle.
C22_ViewsPartition ==
  \A k \in Bundles :
    /\ Cardinality(ViewsOf(store, k)) = 1
    /\ store[k].isDeleted => ViewsOf(store, k) = {"deleted"}
    /\ k \in pinned(store) => ~store[k].isArchived /\ ~store[k].isDeleted

C22_Witness ==
  /\ Has(store, 2)
  /\ Has(store, 3)
  /\ store[2].isDeleted
  /\ store[2].isArchived
  /\ ViewsOf(store, 2) = {"deleted"}
  /\ ViewsOf(store, 3) = {"pinned"}

\* C23: unarchiving a bundle that is not archived leaves its record as it
\* was.
C23_UnarchiveIdempotent ==
  [][lastOp'.name = "updateBundle" =>
     \A id \in Bundles, t \in Clock(now) :
       (updateBundle(id, [isArchived |-> FALSE], t) /\ ~store[id].isArchived) =>
         store'[id] = store[id]]_vars

\* C24: every persisted bundle has a non-empty title.
C24_TitleNonEmpty == \A k \in Bundles : store[k].title # ""

\* C25: archiving a bundle, through archiveMany or through the Archive
\* entry of the card menu (update(id, {isArchived: true})), leaves it
\* archived and not pinned.
C25_EveryArchivePathUnpins ==
  [][lastOp'.name \in {"updateBundle", "archiveBundles"} =>
     /\ \A id \in Bundles, t \in Clock(now) :
          updateBundle(id, [isArchived |-> TRUE], t) =>
            store'[id].isArchived /\ ~store'[id].isPinned
     /\ \A ids \in SUBSET TargetIds :
          archiveBundles(ids) =>
            \A k \in ids \cap Bundles : store'[k].isArchived /\ ~store'[k].isPinned]_vars

\* The two lists hold the same elements, each as many times.
IsPermutation(a, b) ==
  /\ Len(a) = Len(b)
  /\ \A i \in DOMAIN a :
       Cardinality({j \in DOMAIN a : a[j] = a[i]}) = Cardinality({j \in DOMAIN b : b[j] = a[i]})

\* C26: moveItem(bundleId, from, to) leaves the items a permutation of what
\* they were, for indexes inside and outside the list.
C26_MoveIsPermutation ==
  [][lastOp'.name = "moveItemInBundle" =>
     \A bundleId \in Bundles \cap {lastOp'.id}, t \in Clock(now) :
       \A fromIndex \in MoveIndexes(store, bundleId), toIndex \in MoveIndexes(store, bundleId) :
         moveItemInBundle(bundleId, fromIndex, toIndex, t) =>
           IsPermutation(store'[bundleId].items, store[bundleId].items)]_vars

\* C27: the positions the editor hands to moveItem on a drop are, in the
\* stored list, those of the items shown at these positions.
C27_DropMovesTheItemShown ==
  [][lastOp'.name = "moveItemInBundle" =>
     \A bundleId \in Bundles \cap {lastOp'.id}, t \in Clock(now), searchQuery \in Queries :
       \A draggedItemIndex \in MoveIndexes(store, bundleId),
          dropIndex \in MoveIndexes(store, bundleId) :
         handleDrop(bundleId, searchQuery, draggedItemIndex, dropIndex, t) =>
           /\ store[bundleId].items[draggedItemIndex + 1]
                = processedItems(store[bundleId].items, searchQuery)[draggedItemIndex + 1]
           /\ store[bundleId].items[dropIndex + 1]
                = processedItems(store[bundleId].items, searchQuery)[dropIndex + 1]]_vars

\* C28: two edits of different entries of one checklist, made before the
\* card is rendered again, are both in the stored item: its entries are
\* those the card showed with the first edit and then the second applied.
C28_BothEditsTakeEffect ==
  (ui.screen = "editor" /\ Len(ui.edits) = 2 /\ ui.edits[1].id # ui.edits[2].id) =>
    store[ui.bundleId].items[1].items
      = Edited(Edited(ui.item.items, ui.edits[1]), ui.edits[2])

\* The link items the quick add has stored, as (bundle, position) pairs.
QuickAddLinks(s) ==
  UNION {{<<k, i>> : i \in {j \in DOMAIN s[k].items : s[k].items[j].title = QuickAddTitle}} :
           k \in DOMAIN s}

\* C29: one quick-add request stores at most one link item at any time and
\* exactly one once its runs are through, and the store holds at most one
\* bundle named Inbox.
C29_OneLinkOneInbox ==
  "runs" \in DOMAIN ui =>
    /\ Cardinality(QuickAddLinks(store)) <= 1
    /\ Cardinality({k \in Bundles : IsInbox(store[k].title)}) <= 1
    /\ (ui.runs # <<>> /\ \A r \in DOMAIN ui.runs : ui.runs[r].pc = "done") =>
         Cardinality(QuickAddLinks(store)) = 1

\* C30: after Replace on the conflict dialog the existing bundle is gone
\* from the store only if the imported bundle is in it.
C30_ReplaceLosesNothing ==
  pkg.outcome \in {"replaced", "replace failed"} =>
    \/ Has(store, pkg.existing)
    \/ lastOp.name = "importBundle" /\ ~lastOp.threw /\ Has(store, lastOp.new)

====
